---- MODULE Spec2Model ----
(***************************************************************************)
(* A model of go-dockrun (dockrun.go): the fluent container builder        *)
(* (Container, Expose, Run), the Runner's operations (Wait, Stop, Kill,    *)
(* Check) and the container engine they drive.  The engine, the backoff    *)
(* policy, the clock and the probed endpoint are the environment: their    *)
(* answers are drawn nondeterministically from what they can answer.       *)
(***************************************************************************)
EXTENDS Integers, Sequences, FiniteSets, TLC

VARIABLES
    spec,        \* the *Container builder: [image, name, expose], or NilSpec
    containers,  \* the engine: container identifier -> its record
    nextId,      \* the identifier the engine gives the next container
    runs,        \* the number of Run calls made
    runRet,      \* the last Run call: what it returned and the engine calls it made
    runner,      \* the *Runner the caller holds, or NilRunner
    cleanup,     \* the caller's Stop/Kill call: [pc, op, err, n, ret, calls]
    waiter,      \* the caller's exit-wait call: [pc, n, code, engineErr, ret, calls]
    logger,      \* the caller's Logs call: [pc, n, ret, calls]
    now,         \* the clock, in ticks
    ctx,         \* the context the caller passes to Check: [hasDeadline, deadline, err]
    endpoint,    \* "down" or "up": whether the probed address answers
    check        \* the caller's Check call

lifeVars == <<cleanup, waiter, logger>>
checkVars == <<now, ctx, endpoint, check>>
vars == <<spec, containers, nextId, runs, runRet, runner, cleanup, waiter, logger,
          now, ctx, endpoint, check>>

(***************************************************************************)
(* Bounds of the model.                                                    *)
(***************************************************************************)
MaxSegs == 3     \* colon-delimited segments of one exposure string
MaxExpose == 2   \* Expose calls on one builder
MaxRuns == 2     \* Run calls
MaxCleanups == 2 \* Stop and Kill calls on the Runner
MaxWaits == 1    \* exit-wait calls on the Runner
MaxLogs == 1     \* Logs calls on the Runner
MaxTime == 5     \* ticks of the clock
MaxInterval == 2       \* the backoff policy's longest interval, in ticks
MaxElapsedTime == 3    \* the backoff policy's MaxElapsedTime, in ticks
MaxProbes == 1   \* probes of a Check call that overlaps the Runner's other calls

(***************************************************************************)
(* Values.                                                                 *)
(***************************************************************************)
\* a string is the sequence of its characters
Colon == ":"
PortTokens == { <<"8", "0">>, <<"9">> }
Images == { "chrome", "nosuch" }
EngineImages == { "chrome" }
Names == { "chromium" }

\* the nil error
Nil == [kind |-> "nil"]
\* an error answered by the engine client
EngineError(what) == [kind |-> "engine", what |-> what]
\* the nil *Runner, the nil *Container builder
NilRunner == [nil |-> TRUE]
NilSpec == [nil |-> TRUE]

RECURSIVE Join(_)
\* the segments written with a colon between them
Join(segs) ==
    IF Len(segs) = 1 THEN segs[1]
    ELSE segs[1] \o <<Colon>> \o Join(Tail(segs))

SegLists == UNION { [1..n -> PortTokens] : n \in 1..MaxSegs }
\* the exposure strings a caller passes to Expose
PortMaps == { Join(segs) : segs \in SegLists }

(***************************************************************************)
(* strings.Split(port, ":"): the substrings between the colons, at least   *)
(* one (the whole string when it holds no colon).                          *)
(***************************************************************************)
Split(s) ==
    LET F[i \in 0..Len(s)] ==
            IF i = 0 THEN << <<>> >>
            ELSE LET prev == F[i - 1] IN
                 IF s[i] = Colon THEN Append(prev, <<>>)
                 ELSE [prev EXCEPT ![Len(prev)] = Append(@, s[i])]
    IN  F[Len(s)]

\* m[k] = v on a Go map
MapSet(m, k, v) == [x \in DOMAIN m \cup {k} |-> IF x = k THEN v ELSE m[x]]
EmptyMap == [x \in {} |-> {}]

\* ParsePort with the two sides of "host:container" taken the wrong way round
ParsePortSwapped(acc, port) ==
    LET bindings == Split(port) IN
    IF Len(bindings) = 1
    THEN [acc EXCEPT !.exposedPorts = @ \cup {port}]
    ELSE LET dockerPort == bindings[1]
             host == [HostIP |-> "0.0.0.0", HostPort |-> bindings[2]]
         IN  [exposedPorts |-> acc.exposedPorts \cup {dockerPort},
              portBindings |-> MapSet(acc.portBindings, dockerPort, <<host>>)]

\* ParsePort adding the host binding to those the port has already
ParsePortAppending(acc, port) ==
    LET bindings == Split(port) IN
    IF Len(bindings) = 1
    THEN [acc EXCEPT !.exposedPorts = @ \cup {port}]
    ELSE LET dockerPort == bindings[2]
             host == [HostIP |-> "0.0.0.0", HostPort |-> bindings[1]]
             old == IF dockerPort \in DOMAIN acc.portBindings
                    THEN acc.portBindings[dockerPort] ELSE <<>>
         IN  [exposedPorts |-> acc.exposedPorts \cup {dockerPort},
              portBindings |-> MapSet(acc.portBindings, dockerPort, Append(old, host))]

(***************************************************************************)
(* One iteration of Run's loop over c.expose.                              *)
(***************************************************************************)
ParsePort(acc, port) ==
    LET bindings == Split(port) IN
    IF Len(bindings) = 1
    THEN [acc EXCEPT !.exposedPorts = @ \cup {port}]
    ELSE LET dockerPort == bindings[2]
             host == [HostIP |-> "0.0.0.0", HostPort |-> bindings[1]]
         IN  [exposedPorts |-> acc.exposedPorts \cup {dockerPort},
              portBindings |-> MapSet(acc.portBindings, dockerPort, <<host>>)]

RECURSIVE ParsePorts(_)
\* Run's loop over c.expose, from the two empty maps
ParsePorts(expose) ==
    IF expose = <<>>
    THEN [exposedPorts |-> {}, portBindings |-> EmptyMap]
    ELSE ParsePort(ParsePorts(SubSeq(expose, 1, Len(expose) - 1)),
                   expose[Len(expose)])


(***************************************************************************)
(* Errors.                                                                 *)
(***************************************************************************)
\* multierror.Append(err, e), e a plain error: err's list (a lone err becomes
\* a list of one) with e at its end
multierrorAppend(err, e) ==
    IF err = Nil THEN [kind |-> "multierror", Errors |-> <<e>>]
    ELSE IF err.kind = "multierror"
         THEN [kind |-> "multierror", Errors |-> Append(err.Errors, e)]
         ELSE [kind |-> "multierror", Errors |-> <<err, e>>]

\* fmt.Errorf(format, code)
Errorf(format, code) == [kind |-> "fmt.Errorf", format |-> format, args |-> <<code>>]

(***************************************************************************)
(* The engine, as the client library answers.  `fault` is a failure of the *)
(* transport or of the engine that the engine's state does not explain.    *)
(***************************************************************************)
ExitCodes == { 0, 7 }
KilledCode == 128 + 9
KillDeadlines == { 5 }
NoOpts == [none |-> TRUE]
Pending == [kind |-> "pending"]

\* one engine operation, as issued and as answered
Call(op, id, opts, err) == [op |-> op, id |-> id, opts |-> opts, err |-> err]

InspectImageErr(image, fault) ==
    IF fault THEN EngineError("transport")
    ELSE IF image \notin EngineImages THEN EngineError("NoSuchImage")
    ELSE Nil

CreateErr(fault) == IF fault THEN EngineError("transport") ELSE Nil

\* start: "ok", "fail" (the engine refuses) or "canceled" (the caller's context
\* ended during the call; the engine may or may not have started the container)
StartErr(res) ==
    CASE res = "ok" -> Nil
      [] res = "fail" -> EngineError("transport")
      [] OTHER -> EngineError("context canceled")

InspectContainerErr(cs, id, fault) ==
    IF fault THEN EngineError("transport")
    ELSE IF id \notin DOMAIN cs THEN EngineError("NoSuchContainer")
    ELSE Nil

NewContainer(c) == [name |-> c.name, image |-> c.image, state |-> "created", code |-> 0]

\* stop or kill of container id, which leaves it exited with `code`
EngineHalt(cs, id, fault, code) ==
    IF fault THEN [cs |-> cs, err |-> EngineError("transport")]
    ELSE IF id \notin DOMAIN cs THEN [cs |-> cs, err |-> EngineError("NoSuchContainer")]
    ELSE IF cs[id].state # "running"
         THEN [cs |-> cs, err |-> EngineError("ContainerNotRunning")]
    ELSE [cs |-> [cs EXCEPT ![id].state = "exited", ![id].code = code], err |-> Nil]

EngineRemove(cs, id, fault) ==
    IF fault THEN [cs |-> cs, err |-> EngineError("transport")]
    ELSE IF id \notin DOMAIN cs THEN [cs |-> cs, err |-> EngineError("NoSuchContainer")]
    ELSE [cs |-> [x \in DOMAIN cs \ {id} |-> cs[x]], err |-> Nil]

(***************************************************************************)
(* Client.Container and Container.Expose.  The caller builds one           *)
(* *Container.                                                             *)
(***************************************************************************)
Container(image, name) ==
    /\ spec = NilSpec
    /\ spec' = [image |-> image, name |-> name, expose |-> <<>>]
    /\ UNCHANGED <<containers, nextId, runs, runRet, runner, lifeVars, checkVars>>

\* Expose keeping the new mapping only
ExposeReplacing(portmap) ==
    /\ spec # NilSpec
    /\ Len(spec.expose) < MaxExpose
    /\ spec' = [spec EXCEPT !.expose = <<portmap>>]
    /\ UNCHANGED <<containers, nextId, runs, runRet, runner, lifeVars, checkVars>>

Expose(portmap) ==
    /\ spec # NilSpec
    /\ Len(spec.expose) < MaxExpose
    /\ spec' = [spec EXCEPT !.expose = Append(@, portmap)]
    /\ UNCHANGED <<containers, nextId, runs, runRet, runner, lifeVars, checkVars>>

(***************************************************************************)
(* Container.Run.  RunSteps is its control flow: how many of its four      *)
(* engine calls it makes, given the errors e1..e4 the engine answers them  *)
(* with.                                                                   *)
(***************************************************************************)
\* RunSteps without the return after a failed image inspection
RunStepsNoEnsure(e1, e2, e3, e4) ==
    IF e2 # Nil THEN 2
    ELSE IF e3 # Nil THEN 3
    ELSE 4

\* RunSteps without the return after a failed start
RunStepsIgnoreStart(e1, e2, e3, e4) ==
    IF e1 # Nil THEN 1
    ELSE IF e2 # Nil THEN 2
    ELSE 4

RunSteps(e1, e2, e3, e4) ==
    IF e1 # Nil THEN 1
    ELSE IF e2 # Nil THEN 2
    ELSE IF e3 # Nil THEN 3
    ELSE 4

\* what Run returns and what it leaves in the engine
RunResult(c, cs, id, imgFault, createFault, startRes, started, inspectFault) ==
    LET e1 == InspectImageErr(c.image, imgFault)
        ports == ParsePorts(c.expose)
        e2 == CreateErr(createFault)
        cs2 == MapSet(cs, id, NewContainer(c))
        e3 == StartErr(startRes)
        cs3 == IF started THEN [cs2 EXCEPT ![id].state = "running"] ELSE cs2
        e4 == InspectContainerErr(cs3, id, inspectFault)
        k == RunSteps(e1, e2, e3, e4)
        errs == <<e1, e2, e3, e4>>
        log == << Call("InspectImage", 0, [image |-> c.image], e1),
                  Call("CreateContainer", IF e2 = Nil THEN id ELSE 0,
                       [Name |-> c.name, Image |-> c.image,
                        ExposedPorts |-> ports.exposedPorts,
                        PortBindings |-> ports.portBindings], e2),
                  Call("StartContainer", id, NoOpts, e3),
                  Call("InspectContainer", id, NoOpts, e4) >>
    IN  [runner |-> IF k = 4 /\ e4 = Nil THEN [container |-> [ID |-> id]] ELSE NilRunner,
         err |-> errs[k],
         cs |-> IF k >= 3 THEN cs3 ELSE IF k = 2 /\ e2 = Nil THEN cs2 ELSE cs,
         log |-> SubSeq(log, 1, k)]

\* the engine's answers to Run's calls: one failing call (the calls after it
\* are not made, so their answers are left at success), or none
RunAnswers ==
    { a \in [imgFault : BOOLEAN, createFault : BOOLEAN,
             startRes : {"ok", "fail", "canceled"}, started : BOOLEAN,
             inspectFault : BOOLEAN] :
        /\ a.startRes = "ok" => a.started
        /\ a.startRes = "fail" => ~a.started
        /\ a.imgFault => ~a.createFault /\ a.startRes = "ok" /\ ~a.inspectFault
        /\ a.createFault => a.startRes = "ok" /\ ~a.inspectFault
        /\ a.startRes # "ok" => ~a.inspectFault }

\* the caller runs the builder until it has a Runner
Run ==
    /\ spec # NilSpec
    /\ runner = NilRunner
    /\ runs < MaxRuns
    /\ \E a \in RunAnswers :
          LET r == RunResult(spec, containers, nextId, a.imgFault, a.createFault,
                             a.startRes, a.started, a.inspectFault)
          IN  /\ runRet' = [runner |-> r.runner, err |-> r.err, calls |-> r.log]
              /\ runner' = r.runner
              /\ containers' = r.cs
              /\ nextId' = IF nextId \in DOMAIN r.cs THEN nextId + 1 ELSE nextId
    /\ runs' = runs + 1
    /\ UNCHANGED <<spec, lifeVars, checkVars>>

(***************************************************************************)
(* Runner.Stop and Runner.Kill.  Each of their two engine calls blocks, so *)
(* each is a step: the primary call (StopContainer, KillContainer), then   *)
(* RemoveContainer and the return.                                         *)
(***************************************************************************)
\* Collect keeping the first failure only
CollectFirst(err, e) == IF err # Nil THEN err ELSE IF e # Nil THEN multierrorAppend(err, e) ELSE err

\* if e := ...; e != nil { err = multierror.Append(err, e) }
Collect(err, e) == IF e # Nil THEN multierrorAppend(err, e) ELSE err

RemoveContainerOptions(id) == [ID |-> id, RemoveVolumes |-> TRUE, Force |-> TRUE]

\* Stop taking "no such container" from StopContainer for success
StopIdempotent(killDeadline) ==
    /\ runner # NilRunner
    /\ cleanup.pc = "idle"
    /\ cleanup.n < MaxCleanups
    /\ \E fault \in BOOLEAN, code \in ExitCodes :
          LET id == runner.container.ID
              r == EngineHalt(containers, id, fault, code)
              e == IF r.err = EngineError("NoSuchContainer") THEN Nil ELSE r.err
          IN  /\ containers' = r.cs
              /\ cleanup' = [pc |-> "remove", op |-> "Stop", n |-> cleanup.n + 1,
                             err |-> Collect(Nil, e), ret |-> cleanup.ret,
                             calls |-> << Call("StopContainer", id,
                                               [timeout |-> killDeadline], e) >>]
    /\ UNCHANGED <<spec, nextId, runs, runRet, runner, waiter, logger, checkVars>>

Stop(killDeadline) ==
    /\ runner # NilRunner
    /\ cleanup.pc = "idle"
    /\ cleanup.n < MaxCleanups
    /\ \E fault \in BOOLEAN, code \in ExitCodes :
          LET id == runner.container.ID
              r == EngineHalt(containers, id, fault, code)
          IN  /\ containers' = r.cs
              /\ cleanup' = [pc |-> "remove", op |-> "Stop", n |-> cleanup.n + 1,
                             err |-> Collect(Nil, r.err), ret |-> cleanup.ret,
                             calls |-> << Call("StopContainer", id,
                                               [timeout |-> killDeadline], r.err) >>]
    /\ UNCHANGED <<spec, nextId, runs, runRet, runner, waiter, logger, checkVars>>

Kill ==
    /\ runner # NilRunner
    /\ cleanup.pc = "idle"
    /\ cleanup.n < MaxCleanups
    /\ \E fault \in BOOLEAN :
          LET id == runner.container.ID
              r == EngineHalt(containers, id, fault, KilledCode)
          IN  /\ containers' = r.cs
              /\ cleanup' = [pc |-> "remove", op |-> "Kill", n |-> cleanup.n + 1,
                             err |-> Collect(Nil, r.err), ret |-> cleanup.ret,
                             calls |-> << Call("KillContainer", id, [ID |-> id], r.err) >>]
    /\ UNCHANGED <<spec, nextId, runs, runRet, runner, waiter, logger, checkVars>>

\* Remove returning early, without the engine call, when the primary call failed
RemoveUnlessFailed(op) ==
    /\ cleanup.pc = "remove"
    /\ cleanup.op = op
    /\ \E fault \in BOOLEAN :
          LET id == runner.container.ID
              r == IF cleanup.err # Nil THEN [cs |-> containers, err |-> Nil]
                   ELSE EngineRemove(containers, id, fault)
              err == Collect(cleanup.err, r.err)
          IN  /\ containers' = r.cs
              /\ cleanup' = [cleanup EXCEPT
                                !.pc = "idle", !.err = err, !.ret = err,
                                !.calls = IF cleanup.err # Nil THEN @
                                          ELSE Append(@, Call("RemoveContainer", id,
                                                       RemoveContainerOptions(id), r.err))]
    /\ UNCHANGED <<spec, nextId, runs, runRet, runner, waiter, logger, checkVars>>

\* Remove dropping the Runner's container once the engine has been asked to
\* remove it
RemoveForgetsContainer(op) ==
    /\ cleanup.pc = "remove"
    /\ cleanup.op = op
    /\ \E fault \in BOOLEAN :
          LET id == runner.container.ID
              r == EngineRemove(containers, id, fault)
              err == Collect(cleanup.err, r.err)
          IN  /\ containers' = r.cs
              /\ cleanup' = [cleanup EXCEPT
                                !.pc = "idle", !.err = err, !.ret = err,
                                !.calls = Append(@, Call("RemoveContainer", id,
                                                         RemoveContainerOptions(id), r.err))]
    /\ runner' = NilRunner
    /\ UNCHANGED <<spec, nextId, runs, runRet, waiter, logger, checkVars>>

\* the second half of Stop and of Kill: RemoveContainer, then return err
Remove(op) ==
    /\ cleanup.pc = "remove"
    /\ cleanup.op = op
    /\ \E fault \in BOOLEAN :
          LET id == runner.container.ID
              r == EngineRemove(containers, id, fault)
              err == Collect(cleanup.err, r.err)
          IN  /\ containers' = r.cs
              /\ cleanup' = [cleanup EXCEPT
                                !.pc = "idle", !.err = err, !.ret = err,
                                !.calls = Append(@, Call("RemoveContainer", id,
                                                         RemoveContainerOptions(id), r.err))]
    /\ UNCHANGED <<spec, nextId, runs, runRet, runner, waiter, logger, checkVars>>

StopRemove == Remove("Stop")
KillRemove == Remove("Kill")

(***************************************************************************)
(* Runner.Logs: client.Logs with Follow set streams the container's output *)
(* and blocks until the stream ends (the container is not running), the    *)
(* engine refuses, or the context passed along ends.                       *)
(***************************************************************************)
LogsOptions(id) == [Follow |-> TRUE, Container |-> id, Stdout |-> TRUE, Stderr |-> TRUE]

LogsCall ==
    /\ runner # NilRunner
    /\ logger.pc = "idle"
    /\ logger.n < MaxLogs
    /\ logger' = [logger EXCEPT
                     !.pc = "streaming", !.n = @ + 1,
                     !.calls = << Call("Logs", runner.container.ID,
                                       LogsOptions(runner.container.ID), Pending) >>]
    /\ UNCHANGED <<spec, containers, nextId, runs, runRet, runner, cleanup, waiter,
                   checkVars>>

\* the engine client's answer to Logs(id), when it has one
LogsAnswers(cs, id, done) ==
    { EngineError("transport") }
    \cup (IF done # Nil THEN { done } ELSE {})
    \cup (IF id \notin DOMAIN cs THEN { EngineError("NoSuchContainer") }
          ELSE IF cs[id].state # "running" THEN { Nil }
          ELSE {})

LogsReturn ==
    /\ logger.pc = "streaming"
    /\ \E e \in LogsAnswers(containers, runner.container.ID, ctx.err) :
          logger' = [logger EXCEPT !.pc = "idle", !.ret = e, !.calls[1].err = e]
    /\ UNCHANGED <<spec, containers, nextId, runs, runRet, runner, cleanup, waiter,
                   checkVars>>

(***************************************************************************)
(* Runner.Wait, the exit-wait: WaitContainer blocks until the engine       *)
(* answers with an exit code or an error.                                  *)
(***************************************************************************)
\* WaitResult without the test of the exit code
WaitResultNoCode(code, err) == err

WaitResult(code, err) ==
    IF err # Nil THEN err
    ELSE IF code # 0 THEN Errorf("container exited with error code: %d", code)
    ELSE Nil

WaitCall ==
    /\ runner # NilRunner
    /\ waiter.pc = "idle"
    /\ waiter.n < MaxWaits
    /\ waiter' = [waiter EXCEPT
                     !.pc = "waiting", !.n = @ + 1,
                     !.calls = << Call("WaitContainer", runner.container.ID, NoOpts, Pending) >>]
    /\ UNCHANGED <<spec, containers, nextId, runs, runRet, runner, cleanup, logger, checkVars>>

\* WaitAnswers of an engine that leaves the wait for a container it does not
\* hold without an answer
WaitAnswersNoneForMissing(cs, id) ==
    { [code |-> 0, err |-> EngineError("transport")] }
    \cup (IF id \in DOMAIN cs /\ cs[id].state = "exited"
          THEN { [code |-> cs[id].code, err |-> Nil] }
          ELSE {})

\* the engine's answer to WaitContainer(id), when it has one
WaitAnswers(cs, id) ==
    { [code |-> 0, err |-> EngineError("transport")] }
    \cup (IF id \notin DOMAIN cs
          THEN { [code |-> 0, err |-> EngineError("NoSuchContainer")] }
          ELSE IF cs[id].state = "exited"
               THEN { [code |-> cs[id].code, err |-> Nil] }
               ELSE {})

\* WaitReturn of a library that removes the container on its own once the wait
\* is over
WaitReturnRemoving ==
    /\ waiter.pc = "waiting"
    /\ \E a \in WaitAnswers(containers, runner.container.ID) :
          waiter' = [waiter EXCEPT !.pc = "idle", !.code = a.code, !.engineErr = a.err,
                                   !.ret = WaitResult(a.code, a.err),
                                   !.calls[1].err = a.err]
    /\ containers' = EngineRemove(containers, runner.container.ID, FALSE).cs
    /\ UNCHANGED <<spec, nextId, runs, runRet, runner, cleanup, logger, checkVars>>

WaitReturn ==
    /\ waiter.pc = "waiting"
    /\ \E a \in WaitAnswers(containers, runner.container.ID) :
          waiter' = [waiter EXCEPT !.pc = "idle", !.code = a.code, !.engineErr = a.err,
                                   !.ret = WaitResult(a.code, a.err),
                                   !.calls[1].err = a.err]
    /\ UNCHANGED <<spec, containers, nextId, runs, runRet, runner, cleanup, logger, checkVars>>

\* WaitContainer returns with the engine's own answer (no failure of the
\* transport)
EngineAnswersWait == WaitReturn /\ waiter'.engineErr # EngineError("transport")

(***************************************************************************)
(* The environment: a running container's process exits; somebody else     *)
(* removes a container.                                                    *)
(***************************************************************************)
ContainerExit(id, code) ==
    /\ id \in DOMAIN containers
    /\ containers[id].state = "running"
    /\ containers' = [containers EXCEPT ![id].state = "exited", ![id].code = code]
    /\ UNCHANGED <<spec, nextId, runs, runRet, runner, lifeVars, checkVars>>

ExternalRemove(id) ==
    /\ id \in DOMAIN containers
    /\ containers' = [x \in DOMAIN containers \ {id} |-> containers[x]]
    /\ UNCHANGED <<spec, nextId, runs, runRet, runner, lifeVars, checkVars>>

(***************************************************************************)
(* Runner.Check, the readiness prober.  A probe (http.Get, net.Dial) and a *)
(* backoff sleep (time.Sleep) block while the clock runs, so each has a    *)
(* step that starts it and a step that ends it.                            *)
(***************************************************************************)
Canceled == [kind |-> "context", what |-> "context canceled"]
DeadlineExceeded == [kind |-> "context", what |-> "context deadline exceeded"]
ParseError == [kind |-> "url.Error", what |-> "parse"]
CloseError == [kind |-> "io", what |-> "close"]

\* the addresses a caller passes: url.Parse accepts it or not; its scheme
Addrs == [valid : BOOLEAN, scheme : {"http", "tcp"}]

\* context.Background()
Background == [hasDeadline |-> FALSE, deadline |-> 0, err |-> Nil]

\* ctx.Err()
ctxErr == ctx.err

\* the probe Check makes for a scheme
ProbeKind(scheme) == IF scheme \in {"http", "https"} THEN "http.Get" ELSE "net.Dial"

(***************************************************************************)
(* b.NextBackOff() of backoff.WithContext(NewExponentialBackOff(), ctx):   *)
(* the delays it may answer at time t, Stop among them or alone.  It stops *)
(* once the context is done, and once more than MaxElapsedTime has passed  *)
(* since the policy was made at `start`; else it answers a randomized      *)
(* interval of at most MaxInterval.                                        *)
(***************************************************************************)
BackoffStop == [stop |-> TRUE, sleep |-> 0]
NextBackOff(start, t, err) ==
    IF err # Nil THEN { BackoffStop }
    ELSE IF t - start > MaxElapsedTime THEN { BackoffStop }
    ELSE { [stop |-> FALSE, sleep |-> d] : d \in 1..MaxInterval }

\* Check's decision after a failed probe: return ctx.Err(), or sleep
AfterFailure(c, b, err, t) ==
    IF b.stop
    THEN [c EXCEPT !.pc = "done", !.ret = err]
    ELSE [c EXCEPT !.pc = "sleeping", !.wakeAt = t + b.sleep, !.sleeps = @ + 1]

\* AfterSuccess going round the loop again instead of returning
AfterSuccessKeepsProbing(c, closeErr) == [c EXCEPT !.pc = "probe"]

\* Check's decision after a successful probe: return what Close() returns
AfterSuccess(c, closeErr) == [c EXCEPT !.pc = "done", !.ret = closeErr]

\* b := backo(ctx); u, err := url.Parse(addr)
CheckCall(addr) ==
    /\ runner # NilRunner
    /\ check.pc = "idle"
    /\ check' = IF addr.valid
                THEN [check EXCEPT !.pc = "probe", !.addr = addr, !.start = now]
                ELSE [check EXCEPT !.pc = "done", !.addr = addr, !.start = now,
                                   !.ret = ParseError]
    /\ UNCHANGED <<spec, containers, nextId, runs, runRet, runner, lifeVars,
                   now, ctx, endpoint>>

\* http.Get(u.String()) or net.Dial(u.Scheme, u.Host) is called
ProbeStart ==
    /\ check.pc = "probe"
    /\ check' = [check EXCEPT !.pc = "probing"]
    /\ UNCHANGED <<spec, containers, nextId, runs, runRet, runner, lifeVars,
                   now, ctx, endpoint>>

\* the probe returns: Check returns if it succeeded, consults the policy if not
ProbeEnd ==
    /\ check.pc = "probing"
    /\ LET ok == endpoint = "up"
           c == [check EXCEPT !.probes = Append(@, [kind |-> ProbeKind(check.addr.scheme),
                                                    ok |-> ok, at |-> now])]
       IN  IF ok
           THEN \E closeErr \in {Nil, CloseError} : check' = AfterSuccess(c, closeErr)
           ELSE \E b \in NextBackOff(check.start, now, ctxErr) :
                   check' = AfterFailure(c, b, ctxErr, now)
    /\ UNCHANGED <<spec, containers, nextId, runs, runRet, runner, lifeVars,
                   now, ctx, endpoint>>

\* time.Sleep(sleep) returns
Wake ==
    /\ check.pc = "sleeping"
    /\ now >= check.wakeAt
    /\ check' = [check EXCEPT !.pc = "probe"]
    /\ UNCHANGED <<spec, containers, nextId, runs, runRet, runner, lifeVars,
                   now, ctx, endpoint>>

(***************************************************************************)
(* The environment of Check: the clock (which ends a context at its        *)
(* deadline), the caller cancelling the context, the service in the        *)
(* container starting to listen.                                           *)
(***************************************************************************)
\* the caller's ctx, cancel := context.WithTimeout(context.Background(), d)
WithTimeout(d) ==
    /\ ctx = Background
    /\ check.pc = "idle"
    /\ now + d <= MaxTime
    /\ ctx' = [hasDeadline |-> TRUE, deadline |-> now + d, err |-> Nil]
    /\ UNCHANGED <<spec, containers, nextId, runs, runRet, runner, lifeVars,
                   now, endpoint, check>>

\* time passes while Check is blocked or not running, not between two of its
\* own statements
Tick ==
    /\ now < MaxTime
    /\ check.pc # "probe"
    /\ now' = now + 1
    /\ ctx' = IF ctx.hasDeadline /\ now' >= ctx.deadline /\ ctx.err = Nil
              THEN [ctx EXCEPT !.err = DeadlineExceeded]
              ELSE ctx
    /\ UNCHANGED <<spec, containers, nextId, runs, runRet, runner, lifeVars,
                   endpoint, check>>

Cancel ==
    /\ ctx.err = Nil
    /\ ctx' = [ctx EXCEPT !.err = Canceled]
    /\ UNCHANGED <<spec, containers, nextId, runs, runRet, runner, lifeVars,
                   now, endpoint, check>>

EndpointUp ==
    /\ endpoint = "down"
    /\ \E id \in DOMAIN containers : containers[id].state = "running"
    /\ endpoint' = "up"
    /\ UNCHANGED <<spec, containers, nextId, runs, runRet, runner, lifeVars,
                   now, ctx, check>>

(***************************************************************************)
(* Specifications.                                                         *)
(***************************************************************************)
Init ==
    /\ spec = NilSpec
    /\ containers = EmptyMap
    /\ nextId = 1
    /\ runs = 0
    /\ runRet = [runner |-> NilRunner, err |-> Nil, calls |-> <<>>]
    /\ runner = NilRunner
    /\ cleanup = [pc |-> "idle", op |-> "none", n |-> 0, err |-> Nil, ret |-> Nil,
                  calls |-> <<>>]
    /\ waiter = [pc |-> "idle", n |-> 0, code |-> 0, engineErr |-> Nil, ret |-> Nil,
                 calls |-> <<>>]
    /\ logger = [pc |-> "idle", n |-> 0, ret |-> Nil, calls |-> <<>>]
    /\ now = 0
    /\ ctx = Background
    /\ endpoint = "down"
    /\ check = [pc |-> "idle", addr |-> [valid |-> TRUE, scheme |-> "http"], start |-> 0,
                wakeAt |-> 0, sleeps |-> 0, probes |-> <<>>, ret |-> Nil]

\* one builder, run as built, and the Runner's whole life
Next ==
    \/ \E image \in Images, name \in Names : Container(image, name)
    \/ Run
    \/ \E killDeadline \in KillDeadlines : Stop(killDeadline)
    \/ StopRemove
    \/ Kill
    \/ KillRemove
    \/ WaitCall
    \/ WaitReturn
    \/ \E id \in DOMAIN containers, code \in ExitCodes : ContainerExit(id, code)
    \/ \E id \in DOMAIN containers : ExternalRemove(id)

Spec == Init /\ [][Next]_vars

\* the same, with an engine that does answer a pending WaitContainer once the
\* container has exited or is not there
LiveSpec == Init /\ [][Next]_vars /\ WF_vars(EngineAnswersWait)

\* one builder, over every exposure list, run once
NextBuild ==
    \/ \E image \in Images, name \in Names : Container(image, name)
    \/ runs = 0 /\ \E portmap \in PortMaps : Expose(portmap)
    \/ runs = 0 /\ Run

SpecBuild == Init /\ [][NextBuild]_vars

\* one Runner and one Check call on it, under the clock
NextCheck ==
    \/ \E image \in Images, name \in Names : Container(image, name)
    \/ runs = 0 /\ Run
    \/ \E addr \in Addrs : CheckCall(addr)
    \/ ProbeStart
    \/ ProbeEnd
    \/ Wake
    \/ \E d \in 1..MaxTime : WithTimeout(d)
    \/ Tick
    \/ Cancel
    \/ EndpointUp

SpecCheck == Init /\ [][NextCheck]_vars

\* one Runner and the calls a caller makes on it, in any order and overlapping:
\* Check, Logs, the exit-wait, Stop and Kill.  The clock is let run only for
\* Check's sleeps, nothing else here depending on it, and Check is called with
\* http addresses, the scheme deciding only which probe it makes.
NextRunner ==
    \/ \E image \in Images, name \in Names : Container(image, name)
    \/ runs = 0 /\ Run
    \/ \E addr \in Addrs : addr.scheme = "http" /\ CheckCall(addr)
    \/ Len(check.probes) < MaxProbes /\ ProbeStart
    \/ ProbeEnd
    \/ Wake
    \/ check.pc = "sleeping" /\ now < check.wakeAt /\ Tick
    \/ EndpointUp
    \/ LogsCall
    \/ LogsReturn
    \/ WaitCall
    \/ WaitReturn
    \/ \E killDeadline \in KillDeadlines : Stop(killDeadline)
    \/ StopRemove
    \/ Kill
    \/ KillRemove

SpecRunner == Init /\ [][NextRunner]_vars

(***************************************************************************)
(* Properties of Stop and Kill.                                            *)
(***************************************************************************)
PrimaryOp(op) == IF op = "Stop" THEN "StopContainer" ELSE "KillContainer"
CleanupReturned == cleanup.n > 0 /\ cleanup.pc = "idle"
Failing(errs) == SelectSeq(errs, LAMBDA e : e # Nil)

\* C1: Stop and Kill issue their primary engine action (stop, kill) first and
\* then, whether it succeeded or failed, the engine remove (removeVolumes and
\* force set) of the same container, exactly once: after the primary call the
\* remove is the one step left and nothing bars it, and a returned call has made
\* exactly the two calls, in that order.
RemoveAlwaysFollowsPrimary ==
    cleanup.n > 0 =>
        LET cs == cleanup.calls IN
        /\ cs[1].op = PrimaryOp(cleanup.op)
        /\ cs[1].id = runner.container.ID
        /\ IF cleanup.pc = "remove"
           THEN Len(cs) = 1 /\ ENABLED (StopRemove \/ KillRemove)
           ELSE /\ Len(cs) = 2
                /\ cs[2].op = "RemoveContainer"
                /\ cs[2].id = cs[1].id
                /\ cs[2].opts = [ID |-> cs[1].id, RemoveVolumes |-> TRUE, Force |-> TRUE]

\* a Stop or Kill whose primary call failed has returned, the remove issued
RemoveAfterFailedPrimary ==
    /\ CleanupReturned
    /\ cleanup.calls[1].err # Nil
    /\ Len(cleanup.calls) = 2
    /\ cleanup.calls[2].op = "RemoveContainer"

\* C2: Stop and Kill return nil exactly when both steps succeeded, and otherwise
\* the aggregated error holding exactly the failing steps' errors, the primary
\* step's before the remove's.
CleanupErrorIsTheFailures ==
    CleanupReturned =>
        LET failing == Failing(<<cleanup.calls[1].err, cleanup.calls[2].err>>) IN
        /\ cleanup.ret = Nil <=> failing = <<>>
        /\ failing # <<>> => cleanup.ret = [kind |-> "multierror", Errors |-> failing]

\* both steps failed, with different errors, and both are in the returned error
BothStepsFailed ==
    /\ CleanupReturned
    /\ cleanup.calls[1].err # Nil
    /\ cleanup.calls[2].err # Nil
    /\ cleanup.calls[1].err # cleanup.calls[2].err
    /\ Len(cleanup.ret.Errors) = 2

NotFound == EngineError("NoSuchContainer")
Transport == EngineError("transport")
\* the container of the Runner is not in the engine
Missing == runner # NilRunner /\ runner.container.ID \notin DOMAIN containers

\* C11: Stop or Kill on a Runner whose container is no longer in the engine
\* (removed by somebody else, or by an earlier Stop or Kill) still issues the
\* primary step and then the remove step, and returns the aggregated error of
\* two failures, the primary step's and the remove step's, each of them the
\* engine's not-found answer (unless the engine could not be reached at all).
CleanupOfMissingContainer ==
    /\ [][(Missing /\ cleanup'.n = cleanup.n + 1) =>
            /\ cleanup'.pc = "remove"
            /\ Len(cleanup'.calls) = 1
            /\ cleanup'.calls[1].op = PrimaryOp(cleanup'.op)
            /\ cleanup'.calls[1].err \in {NotFound, Transport}]_vars
    /\ [][(Missing /\ cleanup.pc = "remove" /\ cleanup'.pc = "idle"
                   /\ cleanup.calls[1].err \in {NotFound, Transport}) =>
            /\ Len(cleanup'.calls) = 2
            /\ cleanup'.calls[1] = cleanup.calls[1]
            /\ cleanup'.calls[2].op = "RemoveContainer"
            /\ cleanup'.calls[2].err \in {NotFound, Transport}
            /\ cleanup'.ret = [kind |-> "multierror",
                               Errors |-> <<cleanup'.calls[1].err, cleanup'.calls[2].err>>]]_vars
    /\ [](Missing /\ cleanup.pc = "remove" => ENABLED (StopRemove \/ KillRemove))

\* Stop, the first cleanup call on a Runner whose container somebody else had
\* removed, returned the two not-found failures
StopOfRemovedContainer ==
    /\ CleanupReturned
    /\ cleanup.n = 1
    /\ cleanup.op = "Stop"
    /\ cleanup.ret = [kind |-> "multierror", Errors |-> <<NotFound, NotFound>>]

(***************************************************************************)
(* Properties of Check.                                                    *)
(***************************************************************************)
ProbeSucceeded == \E i \in 1..Len(check.probes) : check.probes[i].ok
CheckReturned == check.pc = "done" /\ check.addr.valid

\* C3: Check returns nil only if one of its probes succeeded, and when its loop
\* stops without a successful probe (the backoff policy signalled stop, or the
\* context ended) it returns a non-nil error, the context's.
CheckFailsWithContextError ==
    CheckReturned =>
        /\ check.ret = Nil => ProbeSucceeded
        /\ ~ProbeSucceeded => check.ret # Nil /\ check.ret = ctxErr

\* C4: with a deadline D on the context and an endpoint that never answers,
\* Check is not blocked in a probe or in a sleep past D, and what it returns is
\* the context's deadline-exceeded error.
CheckHonoursDeadline ==
    (ctx.hasDeadline /\ ctxErr # Canceled /\ endpoint = "down") =>
        /\ now > ctx.deadline => check.pc \notin {"probing", "sleeping"}
        /\ CheckReturned => check.ret = DeadlineExceeded

\* what C5 says of a call in which a probe succeeded, but for the value returned:
\* the successful probe is the call's last, every probe before it failed, each
\* failed probe was followed by one sleep and the successful one by none
ReturnedAtFirstSuccess ==
    ProbeSucceeded =>
        LET n == Len(check.probes) IN
        /\ check.pc = "done"
        /\ check.probes[n].ok
        /\ \A i \in 1..(n - 1) : ~check.probes[i].ok
        /\ check.sleeps = n - 1

\* C5, as claimed: Check returns success (nil) at the first probe that succeeds,
\* with no probe and no sleep after it and only failed probes before it.
CheckSucceedsAtFirstSuccess ==
    ReturnedAtFirstSuccess /\ (ProbeSucceeded => check.ret = Nil)

\* C5, amended: Check returns at the first probe that succeeds, with no probe and
\* no sleep after it and only failed probes before it, and what it returns is
\* what closing the response body or the connection returned: nil, or the
\* close's error.  Once it has returned, the call does nothing more.
CheckReturnsAtFirstSuccess ==
    /\ [](ReturnedAtFirstSuccess /\ (ProbeSucceeded => check.ret \in {Nil, CloseError}))
    /\ [][check.pc = "done" => check' = check]_vars

\* Check returned nil at its third probe or later, the earlier ones having failed
SucceededAfterRetries ==
    /\ check.pc = "done"
    /\ Len(check.probes) >= 3
    /\ check.probes[Len(check.probes)].ok
    /\ ~check.probes[1].ok
    /\ check.ret = Nil

\* C12: once the context passed to Check is cancelled or expired, Check starts
\* no new probe and no new backoff sleep, and a call that returns then (its
\* address having parsed) returns the context's error; so also when the context
\* ended while Check was in a probe or in a sleep.
CheckStopsOnceContextDone ==
    [][ctxErr # Nil =>
         /\ ~(check.pc # "probing" /\ check'.pc = "probing")
         /\ ~(check.pc # "sleeping" /\ check'.pc = "sleeping")
         /\ (check.pc # "done" /\ check'.pc = "done" /\ check'.addr.valid) =>
                check'.ret = ctxErr]_vars

(***************************************************************************)
(* Properties of Run.                                                      *)
(***************************************************************************)
RunOrder == <<"InspectImage", "CreateContainer", "StartContainer", "InspectContainer">>

\* the containers the Run call with these engine calls created
CreatedBy(cs) ==
    { cs[i].id : i \in { j \in 1..Len(cs) : cs[j].op = "CreateContainer" /\ cs[j].err = Nil } }

\* C6: when the image inspection at the start of Run fails, Run returns that
\* error and no Runner, having made no other engine call (no create, no start,
\* no inspect-container), and the engine holds what it held before.
NothingAfterFailedImageInspection ==
    /\ [](runs > 0 /\ runRet.calls[1].err # Nil =>
            /\ Len(runRet.calls) = 1
            /\ runRet.calls[1].op = "InspectImage"
            /\ runRet.runner = NilRunner
            /\ runRet.err = runRet.calls[1].err)
    /\ [][runs' = runs + 1 /\ runRet'.calls[1].err # Nil =>
            containers' = containers /\ nextId' = nextId /\ runner' = NilRunner]_vars

\* a Run whose image inspection failed (a fault of the transport: the image is
\* in the engine)
ImageInspectionFailed ==
    /\ runs > 0
    /\ runRet.calls[1].err # Nil
    /\ spec.image \in EngineImages

\* C7: Run is all-or-nothing: when it returns successfully, exactly one
\* container created by the call exists and is started; when it returns an
\* error, no container created by the call is left in the engine.
RunIsAllOrNothing ==
    [][runs' = runs + 1 =>
         LET created == CreatedBy(runRet'.calls) IN
         IF runRet'.err = Nil
         THEN /\ Cardinality(created) = 1
              /\ \A id \in created :
                    id \in DOMAIN containers' /\ containers'[id].state = "running"
         ELSE \A id \in created : id \notin DOMAIN containers']_vars

\* C8: Run makes its engine calls in the order inspect image, create, start,
\* inspect container, each only if the one before succeeded; at the first
\* failing call it returns that call's error, unchanged, and a nil Runner; it
\* returns a Runner, and a nil error, exactly when all four succeeded, and the
\* Runner holds the identifier that create returned.
RunIsFailFast ==
    runs > 0 =>
        LET cs == runRet.calls
            k == Len(cs)
        IN  /\ k \in 1..4
            /\ \A i \in 1..k : cs[i].op = RunOrder[i]
            /\ \A i \in 1..(k - 1) : cs[i].err = Nil
            /\ k < 4 => cs[k].err # Nil
            /\ cs[k].err # Nil => runRet.err = cs[k].err /\ runRet.runner = NilRunner
            /\ runRet.runner # NilRunner <=> (k = 4 /\ cs[4].err = Nil)
            /\ runRet.runner # NilRunner =>
                  /\ runRet.err = Nil
                  /\ runRet.runner.container.ID = cs[2].id
                  /\ cs[3].id = cs[2].id
                  /\ cs[4].id = cs[2].id

\* a second Run, after a failed first one, returned a Runner
RunReturnedRunner ==
    /\ runs = 2
    /\ runRet.runner # NilRunner
    /\ Len(runRet.calls) = 4

(***************************************************************************)
(* Properties of the exit-wait.                                            *)
(***************************************************************************)
WaitReturned == waiter.n > 0 /\ waiter.pc = "idle"

\* C9: the exit-wait has three outcomes, decided by the engine's answer: an
\* engine error is returned unchanged; exit code 0 and no error returns nil;
\* a non-zero exit code N and no error returns an error that names N and is
\* neither nil nor an engine error.
WaitHasThreeOutcomes ==
    WaitReturned =>
        /\ waiter.engineErr # Nil => waiter.ret = waiter.engineErr
        /\ (waiter.engineErr = Nil /\ waiter.code = 0) => waiter.ret = Nil
        /\ (waiter.engineErr = Nil /\ waiter.code # 0) =>
              /\ waiter.ret # Nil
              /\ waiter.ret.kind # "engine"
              /\ waiter.ret.args = <<waiter.code>>

\* the exit-wait returned for a container that exited with code 7
WaitSawExitCode7 ==
    /\ WaitReturned
    /\ waiter.engineErr = Nil
    /\ waiter.code = 7
    /\ waiter.ret = Errorf("container exited with error code: %d", 7)

\* the kill step of the caller's Kill call has succeeded
KillSucceeded == cleanup.n > 0 /\ cleanup.op = "Kill" /\ cleanup.calls[1].err = Nil

\* C13: an exit-wait running concurrently with a Kill on the same Runner whose
\* kill succeeded eventually returns, whether it was started before the kill,
\* between the kill and the remove, or after the remove: from the kill on the
\* engine has an answer for the wait (the exit code, or not-found once the
\* container is removed), and the wait returns.
WaitReturnsAfterKill ==
    /\ [](KillSucceeded /\ waiter.pc = "waiting" => ENABLED EngineAnswersWait)
    /\ (KillSucceeded /\ waiter.pc = "waiting") ~> (waiter.pc = "idle")

\* the exit-wait returned the exit code of the killed container, Kill having
\* returned nil
WaitSawKill ==
    /\ WaitReturned
    /\ waiter.engineErr = Nil
    /\ waiter.code = KilledCode
    /\ CleanupReturned
    /\ cleanup.op = "Kill"
    /\ cleanup.ret = Nil

(***************************************************************************)
(* Properties of the exposure parsing in Run.                              *)
(***************************************************************************)
Colons(s) == Cardinality({ k \in 1..Len(s) : s[k] = Colon })
FirstColon(s) == CHOOSE k \in 1..Len(s) : s[k] = Colon /\ \A j \in 1..(k - 1) : s[j] # Colon
\* of a string with a colon: what is left of the first colon, and what is
\* between it and the next colon or the end
LeftPart(s) == SubSeq(s, 1, FirstColon(s) - 1)
RightPart(s) ==
    LET rest == SubSeq(s, FirstColon(s) + 1, Len(s)) IN
    IF Colons(rest) = 0 THEN rest ELSE SubSeq(rest, 1, FirstColon(rest) - 1)

\* the options of the create call the last Run made, if it made one
CreateOpts == { runRet.calls[i].opts :
                  i \in { j \in 1..Len(runRet.calls) : runRet.calls[j].op = "CreateContainer" } }

\* entry i of list L is the last one to bind the container port p
LastToBind(L, i, p) == \A j \in (i + 1)..Len(L) : Colons(L[j]) >= 1 => RightPart(L[j]) # p
\* no entry of list L binds the container port p
NoneBinds(L, p) == \A j \in 1..Len(L) : Colons(L[j]) >= 1 => RightPart(L[j]) # p

\* C10: in what Run passes to create, every exposure "H:C" (one colon) has made
\* C an exposed port with exactly one host binding, hostIP "0.0.0.0" and
\* hostPort H (which stands unless a later exposure binds C again), and every
\* exposure "P" (no colon) has made P an exposed port and added no host binding
\* (P has one only if another exposure binds it).
ExposureParsing ==
    \A o \in CreateOpts :
        \A i \in 1..Len(spec.expose) :
            LET s == spec.expose[i] IN
            /\ Colons(s) = 1 =>
                  /\ RightPart(s) \in o.ExposedPorts
                  /\ LastToBind(spec.expose, i, RightPart(s)) =>
                        /\ RightPart(s) \in DOMAIN o.PortBindings
                        /\ o.PortBindings[RightPart(s)] =
                              << [HostIP |-> "0.0.0.0", HostPort |-> LeftPart(s)] >>
            /\ Colons(s) = 0 =>
                  /\ s \in o.ExposedPorts
                  /\ NoneBinds(spec.expose, s) => s \notin DOMAIN o.PortBindings

\* Run created a container from "9:80" and "9": port 80 bound to host port 9,
\* port 9 exposed and unbound
ParsedBoundAndBare ==
    /\ spec # NilSpec
    /\ spec.expose = << <<"9", Colon, "8", "0">>, <<"9">> >>
    /\ \E o \in CreateOpts :
          /\ o.ExposedPorts = { <<"8", "0">>, <<"9">> }
          /\ DOMAIN o.PortBindings = { <<"8", "0">> }

\* C17: Container and Expose issue no engine operation and validate nothing.
\* Container yields a builder with an empty exposure list; Expose(m) is accepted
\* for every string m, puts m at the end of the list and leaves the image, the
\* name and the earlier entries as they were, on the same builder; so a step
\* that changes the builder leaves the engine and what Run returned untouched,
\* and only a Run step changes the engine (and it leaves the builder alone).
BuilderIsPure ==
    /\ [][spec' # spec =>
            /\ UNCHANGED <<containers, nextId, runs, runRet, runner>>
            /\ IF spec = NilSpec
               THEN spec'.expose = <<>>
               ELSE /\ spec'.image = spec.image
                    /\ spec'.name = spec.name
                    /\ Len(spec'.expose) = Len(spec.expose) + 1
                    /\ SubSeq(spec'.expose, 1, Len(spec.expose)) = spec.expose]_vars
    /\ [][(containers' # containers \/ runRet' # runRet \/ runner' # runner) =>
            runs' = runs + 1 /\ spec' = spec]_vars
    /\ [](spec # NilSpec /\ Len(spec.expose) < MaxExpose =>
            \A m \in PortMaps :
                ENABLED (Expose(m) /\ spec'.expose = Append(spec.expose, m)))

\* two Expose calls, the first with a string of three segments, and no engine
\* call made yet
ExposedTwice ==
    /\ spec # NilSpec
    /\ Len(spec.expose) = 2
    /\ Colons(spec.expose[1]) = 2
    /\ Colons(spec.expose[2]) = 0
    /\ runs = 0
    /\ containers = EmptyMap
    /\ runRet.calls = <<>>

\* the container port an entry names: the entry itself when it has no colon,
\* else what stands between its first colon and the next colon or its end
ContainerPort(s) == IF Colons(s) = 0 THEN s ELSE RightPart(s)
\* the entries of list L that bind the container port p
Binders(L, p) == { j \in 1..Len(L) : Colons(L[j]) >= 1 /\ RightPart(L[j]) = p }
Last(S) == CHOOSE j \in S : \A k \in S : k <= j

\* C18: whatever the exposure list, in what Run passes to create a container
\* port has at most one host binding; the ports with a binding are those some
\* "host:container" entry names, each bound to the host port of the last such
\* entry in the list (a bare "port" entry, before or after, takes no binding
\* away); and the exposed ports are exactly the container ports the entries
\* name.
OneBindingPerPortLastWins ==
    \A o \in CreateOpts :
        LET L == spec.expose IN
        /\ \A p \in DOMAIN o.PortBindings : Len(o.PortBindings[p]) <= 1
        /\ DOMAIN o.PortBindings =
              { RightPart(L[j]) : j \in { k \in 1..Len(L) : Colons(L[k]) >= 1 } }
        /\ \A p \in DOMAIN o.PortBindings :
              o.PortBindings[p] =
                 << [HostIP |-> "0.0.0.0", HostPort |-> LeftPart(L[Last(Binders(L, p))])] >>
        /\ o.ExposedPorts = { ContainerPort(L[j]) : j \in 1..Len(L) }

\* Run created a container from "9:80" and "80:80": port 80 is bound to host
\* port 80, the binding to host port 9 dropped
LastBindingWon ==
    /\ spec # NilSpec
    /\ spec.expose = << <<"9", Colon, "8", "0">>, <<"8", "0", Colon, "8", "0">> >>
    /\ \E o \in CreateOpts :
          /\ o.ExposedPorts = { <<"8", "0">> }
          /\ o.PortBindings[<<"8", "0">>] =
                << [HostIP |-> "0.0.0.0", HostPort |-> <<"8", "0">>] >>

\* C15: an exposure string that is not of one or two colon-delimited segments
\* (two colons or more, as "a:b:c") is treated as a single exposed port with no
\* host binding: the string is among the exposed ports passed to create, the
\* host bindings are those made by the two-segment entries alone, and Run does
\* not fail with an error of its own for it (its errors are the engine's).
MalformedExposureIsBarePort ==
    /\ runs > 0 => runRet.err.kind \in { "nil", "engine" }
    /\ \A o \in CreateOpts :
          /\ \A i \in 1..Len(spec.expose) :
                Colons(spec.expose[i]) >= 2 => spec.expose[i] \in o.ExposedPorts
          /\ DOMAIN o.PortBindings \subseteq
                { RightPart(spec.expose[j]) :
                    j \in { k \in 1..Len(spec.expose) : Colons(spec.expose[k]) = 1 } }

(***************************************************************************)
(* Properties of the Runner's calls taken together.                        *)
(***************************************************************************)
HaltingOps == { "StopContainer", "KillContainer", "RemoveContainer" }
Ops(calls) == { calls[i].op : i \in 1..Len(calls) }
\* container id is in the engine and has not exited
Alive(cs, id) == id \in DOMAIN cs /\ cs[id].state # "exited"

\* C14: the library never terminates or removes a container on its own: stop,
\* kill and remove are issued from Stop and Kill only.  No engine call of Run
\* (however it ended), of Logs or of the exit-wait is one of the three; a step
\* that is not a step of a Stop or Kill call leaves every container in the
\* engine, and leaves none newly exited; and a step of Check makes no engine
\* call at all and leaves the engine as it is.
OnlyStopAndKillHalt ==
    /\ [](/\ Ops(runRet.calls) \subseteq
               { "InspectImage", "CreateContainer", "StartContainer", "InspectContainer" }
          /\ Ops(waiter.calls) \subseteq { "WaitContainer" }
          /\ Ops(logger.calls) \subseteq { "Logs" })
    /\ [][cleanup' = cleanup =>
            \A id \in DOMAIN containers :
                /\ id \in DOMAIN containers'
                /\ Alive(containers, id) => Alive(containers', id)]_vars
    /\ [][check' # check =>
            UNCHANGED <<containers, nextId, runRet, runner, cleanup, waiter, logger>>]_vars

\* Run, Check, Logs and the exit-wait have all been called (Check has returned,
\* the other two are blocked), neither Stop nor Kill has, and the container runs
RunnerLeftRunning ==
    /\ runner # NilRunner
    /\ check.pc = "done"
    /\ Len(check.probes) > 0
    /\ logger.pc = "streaming"
    /\ waiter.pc = "waiting"
    /\ cleanup.n = 0
    /\ runner.container.ID \in DOMAIN containers
    /\ containers[runner.container.ID].state = "running"

\* the calls the Runner's operations have issued
RunnerCalls == cleanup.calls \o waiter.calls \o logger.calls
\* the container a call names in its options, when it names one there
OptsTarget(c) ==
    CASE c.op \in { "KillContainer", "RemoveContainer" } -> c.opts.ID
      [] c.op = "Logs" -> c.opts.Container
      [] OTHER -> c.id

\* C16: the container identifier a Runner holds is set when Run returns the
\* Runner and never changes: whatever Check, Logs, exit-wait, Stop and Kill calls
\* are made on the Runner, in whatever order and overlap, the Runner stays as Run
\* returned it, and every engine call these operations issue names the
\* container that Run's create call made.
RunnerTargetsItsContainer ==
    /\ [][runner # NilRunner => runner' = runner]_vars
    /\ [](runner # NilRunner =>
            /\ runner = runRet.runner
            /\ CreatedBy(runRet.calls) = { runner.container.ID }
            /\ \A i \in 1..Len(RunnerCalls) :
                  /\ RunnerCalls[i].id = runner.container.ID
                  /\ OptsTarget(RunnerCalls[i]) = runner.container.ID)

\* Logs is streaming and an exit-wait has been made while Kill is between its
\* kill and its remove, Check having returned
LogsAcrossKill ==
    /\ logger.pc = "streaming"
    /\ cleanup.pc = "remove"
    /\ cleanup.op = "Kill"
    /\ waiter.n > 0
    /\ check.pc = "done"
    /\ Len(check.probes) > 0

====
